---- MODULE Spec2Model ----
(***************************************************************************)
(* Model of homework.py: a bot that polls the homework-status API and      *)
(* forwards status changes to a Telegram chat.                             *)
(*                                                                         *)
(* Python values are modelled as tagged records [type, val]; the result of *)
(* a call is a record [exc, val]: exc = "" for a normal return of val, and *)
(* otherwise exc is the class of the raised exception and val is str() of  *)
(* that exception.  The Cyrillic string literals of the source are         *)
(* transliterated, because the module is written in ASCII.                 *)
(***************************************************************************)
EXTENDS Integers, Sequences, FiniteSets, TLC

(***************************************************************************)
(* Bounds of the model.                                                    *)
(***************************************************************************)
\* clock readings int(time.time()) range over 1..MaxNow, and a reading that
\* would be later is MaxNow; main starts before MaxNow
MaxNow == 2
\* current_date values of a response range over 0..MaxDate
MaxDate == 3

(***************************************************************************)
(* Program constants.                                                      *)
(***************************************************************************)
RETRY_PERIOD == 600
\* HTTPStatus.OK
HTTPStatus_OK == 200
\* time.time_ns() counts 10^9 units per second of time.time(); the model
\* counts 10^3 per second so that the readings stay inside TLC's 32-bit
\* integers.  Only time_ns() > 0 and time_ns() > int(time.time()) matter here.
NsPerSec == 1000

(***************************************************************************)
(* Python values.                                                          *)
(***************************************************************************)
PyStr(s) == [type |-> "str", val |-> s]
PyInt(n) == [type |-> "int", val |-> n]
PyList(s) == [type |-> "list", val |-> s]
PyDict(d) == [type |-> "dict", val |-> d]
\* the value of os.getenv for a variable that is not set, and of dict.get
\* for a key that is absent
None == [type |-> "NoneType", val |-> <<>>]
\* the dict without keys
EmptyDict == PyDict(<<>>)

Return(v) == [exc |-> "", val |-> v]
\* no exception
NoError == [exc |-> "", val |-> ""]
Raise(cls, text) == [exc |-> cls, val |-> text]

\* bool(x) for the values the model holds
Truthy(x) ==
    CASE x.type = "NoneType" -> FALSE
      [] x.type = "str" -> x.val # ""
      [] x.type = "int" -> x.val # 0
      [] x.type = "list" -> Len(x.val) > 0
      [] x.type = "dict" -> DOMAIN x.val # {}
      [] OTHER -> TRUE

\* key in obj.  The strings of the model are either the key itself or share
\* no part with it, so the substring test of str is equality.
In(key, obj) ==
    CASE obj.type = "dict" -> Return(key \in DOMAIN obj.val)
      [] obj.type = "list" ->
            Return(\E i \in 1..Len(obj.val) : obj.val[i] = PyStr(key))
      [] obj.type = "str" -> Return(obj.val = key)
      [] OTHER ->
            Raise("TypeError",
                  "argument of type '" \o obj.type \o "' is not iterable")

\* obj.get(key, default): a method of dict only
Get(obj, key, default) ==
    IF obj.type = "dict"
    THEN Return(IF key \in DOMAIN obj.val THEN obj.val[key] ELSE default)
    ELSE Raise("AttributeError",
               "'" \o obj.type \o "' object has no attribute 'get'")

(***************************************************************************)
(* HOMEWORK_VERDICTS and parse_status.                                     *)
(***************************************************************************)
HOMEWORK_VERDICTS ==
    [approved |-> "Rabota proverena: revyueru vsyo ponravilos. Ura!",
     reviewing |-> "Rabota vzyata na proverku revyuerom.",
     rejected |-> "Rabota proverena: u revyuera est zamechaniya."]

\* HOMEWORK_VERDICTS.get(key)
VerdictOf(key) ==
    IF key.type = "str" /\ key.val \in DOMAIN HOMEWORK_VERDICTS
    THEN PyStr(HOMEWORK_VERDICTS[key.val])
    ELSE None

\* a translation that looks the status up before it asks for the name
parse_status_status_first(homework) ==
    LET status == Get(homework, "status", None) IN
    IF status.exc # "" THEN status
    ELSE LET verdict == VerdictOf(status.val) IN
         IF verdict.type = "NoneType"
         THEN Raise("ValueError", "Invalid status value in API response")
         ELSE IF "homework_name" \notin DOMAIN homework.val
         THEN Raise("KeyError", "'No key for homework_name in API response'")
         ELSE Return("Izmenilsya status proverki raboty \""
                     \o homework.val["homework_name"].val
                     \o "\". " \o verdict.val)

parse_status(homework) ==
    LET named == In("homework_name", homework) IN
    IF named.exc # "" THEN named
    ELSE IF ~named.val
    THEN \* str(KeyError(m)) is repr(m)
         Raise("KeyError", "'No key for homework_name in API response'")
    ELSE LET status == Get(homework, "status", None) IN
         IF status.exc # "" THEN status
         ELSE LET verdict == VerdictOf(status.val) IN
              IF verdict.type = "NoneType"
              THEN Raise("ValueError", "Invalid status value in API response")
              ELSE Return("Izmenilsya status proverki raboty \""
                          \o homework.val["homework_name"].val
                          \o "\". " \o verdict.val)

(***************************************************************************)
(* check_response.                                                         *)
(***************************************************************************)
\* a check that does not ask for current_date
check_response_nodate(response) ==
    LET has_homeworks == In("homeworks", response) IN
    IF has_homeworks.exc # "" THEN has_homeworks
    ELSE IF ~has_homeworks.val
    THEN Raise("TypeError", "Response does not contain \"homeworks\" key")
    ELSE IF response.type # "dict"
    THEN Raise("TypeError", "Response is not a dictionary")
    ELSE IF response.val["homeworks"].type # "list"
    THEN Raise("TypeError", "\"homeworks\" value is not a list")
    ELSE Return(response.val["homeworks"])

check_response(response) ==
    LET has_homeworks == In("homeworks", response) IN
    IF has_homeworks.exc # "" THEN has_homeworks
    ELSE IF ~has_homeworks.val
    THEN Raise("TypeError", "Response does not contain \"homeworks\" key")
    ELSE IF response.type # "dict"
    THEN Raise("TypeError", "Response is not a dictionary")
    ELSE IF response.val["homeworks"].type # "list"
    THEN Raise("TypeError", "\"homeworks\" value is not a list")
    ELSE IF "current_date" \notin DOMAIN response.val
    THEN Raise("TypeError", "Response does not contain \"current_date\" key")
    ELSE Return(response.val["homeworks"])

(***************************************************************************)
(* get_api_answer.  The HTTP exchange is the environment's choice: `http`  *)
(* is what requests.get does with the request, error = "" when it returns  *)
(* a response with that status_code and body (NotJson: a body that         *)
(* response.json() cannot decode).                                         *)
(***************************************************************************)
NotJson == [type |-> "not json", val |-> <<>>]

\* time.time_ns() when int(time.time()) reads t
time_ns(t) == t * NsPerSec

\* load or time.time_ns()
timeline(load, t) == IF load # 0 THEN load ELSE time_ns(t)

\* str() of IncorrectAPIResponse(message, error), a class of the module
\* exceptions: an Exception with two arguments prints the pair
IncorrectAPIResponse(message, error) ==
    Raise("IncorrectAPIResponse", "('" \o message \o "', " \o error \o ")")

\* the classes of the module exceptions that derive from Exception
RepositoryExceptions == {"IncorrectAPIResponse"}

\* a handler that catches the errors of the fetch only
ExceptionClasses_narrow == RepositoryExceptions

\* the classes `except Exception` catches
ExceptionClasses ==
    {"TypeError", "KeyError", "ValueError", "AttributeError", "ConnectionError",
     "JSONDecodeError", "TelegramError"} \cup RepositoryExceptions

\* a fetch without the except clause: every error leaves as it was raised
get_api_answer_unwrapped(load, t, http) ==
    IF http.error # ""
    THEN Raise(http.error, "")
    ELSE IF http.status_code # HTTPStatus_OK
    THEN Raise("IncorrectAPIResponse",
               "API response does not return 200."
               \o "Response code: " \o ToString(http.status_code) \o "."
               \o "Reason: " \o http.reason \o "."
               \o "Text: " \o http.text \o ".")
    ELSE IF http.body = NotJson
    THEN Raise("JSONDecodeError", "Expecting value")
    ELSE Return(http.body)

get_api_answer(load, t, http) ==
    LET message == "Begin request to API. Request:{url}, {headers}, {params}."
    IN
    IF http.error # ""
    THEN IncorrectAPIResponse(message, http.error \o "()")
    ELSE IF http.status_code # HTTPStatus_OK
    THEN IncorrectAPIResponse(message,
            "IncorrectAPIResponse('API response does not return 200."
            \o "Response code: " \o ToString(http.status_code) \o "."
            \o "Reason: " \o http.reason \o "."
            \o "Text: " \o http.text \o ".')")
    ELSE IF http.body = NotJson
    THEN IncorrectAPIResponse(message, "JSONDecodeError('Expecting value')")
    ELSE Return(http.body)

(***************************************************************************)
(* send_message.  `delivery` is what bot.send_message does: "ok", or the   *)
(* TelegramError it raises.                                                *)
(***************************************************************************)
\* a send that lets the TelegramError through
send_message_raises(message, delivery) ==
    IF delivery = "ok"
    THEN Return(None)
    ELSE Raise("TelegramError", "delivery failed")

send_message(message, delivery) ==
    IF delivery = "ok"
    THEN Return(None)
    ELSE \* except TelegramError: logged
         Return(None)

(***************************************************************************)
(* check_tokens.                                                           *)
(***************************************************************************)
\* a check that is content with any one credential
check_tokens_any(practicum, telegram, chat) ==
    Truthy(practicum) \/ Truthy(telegram) \/ Truthy(chat)

check_tokens(practicum, telegram, chat) ==
    Truthy(practicum) /\ Truthy(telegram) /\ Truthy(chat)

\* the exit status of sys.exit(arg)
sys_exit(arg) ==
    CASE arg.type = "int" -> arg.val
      [] arg.type = "NoneType" -> 0
      [] OTHER -> 1

(***************************************************************************)
(* The inputs the environment chooses from.                                *)
(***************************************************************************)
\* os.getenv of a credential: not set, set to the empty string, or set
EnvValues == {None, PyStr(""), PyStr("secret")}

\* the records a homeworks list holds: dicts with or without homework_name
\* and status, and a record that is no dict
HomeworkRecords ==
    {PyDict([homework_name |-> PyStr("hw1"), status |-> PyStr("approved")]),
     PyDict([homework_name |-> PyStr("hw1"), status |-> PyStr("rejected")]),
     PyDict([homework_name |-> PyStr("hw1"), status |-> PyStr("unknown")]),
     PyDict([homework_name |-> PyStr("hw1")]),
     PyDict([status |-> PyStr("approved")]),
     EmptyDict,
     PyInt(1)}

\* the records that follow the first record of a list
TailRecords ==
    {PyDict([homework_name |-> PyStr("hw2"), status |-> PyStr("reviewing")]),
     EmptyDict}

HomeworkLists ==
    {<<>>} \cup {<<r>> : r \in HomeworkRecords}
    \cup {<<r, q>> : r \in HomeworkRecords, q \in TailRecords}

Dates == 0..MaxDate

\* the values of key homeworks: lists of records, and a value that is no list
HomeworksValues == {PyList(l) : l \in HomeworkLists} \cup {PyStr("none")}

\* decoded bodies that are dicts
DictBodies ==
    {PyDict([homeworks |-> h, current_date |-> PyInt(d)]) :
        h \in HomeworksValues, d \in Dates}
    \cup {PyDict([homeworks |-> h]) : h \in HomeworksValues}
    \cup {PyDict([current_date |-> PyInt(d)]) : d \in Dates}
    \cup {EmptyDict}

\* decoded bodies that are no dicts
OtherBodies ==
    {PyList(<<>>), PyList(<<PyStr("homeworks")>>), PyStr("homeworks"),
     PyStr("error"), PyInt(5), None}

Bodies == DictBodies \cup OtherBodies

HttpResponse(code, reason, text, body) ==
    [error |-> "", status_code |-> code, reason |-> reason, text |-> text,
     body |-> body]

HttpOutcomes ==
    {[error |-> "ConnectionError", status_code |-> 0, reason |-> "",
      text |-> "", body |-> NotJson]}
    \cup {HttpResponse(503, "Service Unavailable", "down", NotJson)}
    \cup {HttpResponse(HTTPStatus_OK, "OK", "<html>", NotJson)}
    \cup {HttpResponse(HTTPStatus_OK, "OK", "json", b) : b \in Bodies}

Deliveries == {"ok", "TelegramError"}

(***************************************************************************)
(* State.                                                                  *)
(***************************************************************************)
VARIABLES
    PRACTICUM_TOKEN, TELEGRAM_TOKEN, TELEGRAM_CHAT_ID, \* the credentials
    pc,          \* where main is: "main", "exited", "try", "send", "except",
                 \* "finally", "crashed"
    exit_status, \* <<>> while the process runs, <<n>> once it exited with n
    now,         \* what int(time.time()) reads
    load,        \* the cursor
    prev_msg,    \* the last message the loop handed to send_message
    message,     \* the message of the iteration
    error,       \* the exception the iteration raised, as a call result
    http,        \* the HTTP exchange of the iteration
    params,      \* the params of the last request: <<>> before the first
    start_sends, \* send attempts for the start message
    fetches,     \* requests issued since the iteration began
    sends,       \* send attempts since the iteration began
    sleeps,      \* sleeps since the iteration began
    slept,       \* the seconds the last sleep was asked for
    last_send,   \* the last send attempt of the loop
    prev_iter,   \* the message and the send attempts of the iteration before
    older,       \* the same of the iteration before that one, where the
                 \* history of the loop is kept
    call         \* a call of one function on its own: fn, arg, done, result

vars ==
    <<PRACTICUM_TOKEN, TELEGRAM_TOKEN, TELEGRAM_CHAT_ID, pc, exit_status, now,
      load, prev_msg, message, error, http, params, start_sends,
      fetches, sends, sleeps, slept, last_send, prev_iter, older, call>>

NoHttp ==
    [error |-> "none", status_code |-> 0, reason |-> "", text |-> "",
     body |-> NotJson]
NoSend == [made |-> FALSE, text |-> "", delivery |-> ""]
NoIter == [done |-> FALSE, message |-> "", sends |-> 0]
NoCall == [fn |-> "", arg |-> None, done |-> FALSE, result |-> Return(None)]

\* the state of main before it starts, but for the credentials and the clock
Idle ==
    /\ pc = "main"
    /\ exit_status = <<>>
    /\ load = 0
    /\ prev_msg = ""
    /\ message = ""
    /\ error = NoError
    /\ http = NoHttp
    /\ params = <<>>
    /\ start_sends = 0
    /\ fetches = 0
    /\ sends = 0
    /\ sleeps = 0
    /\ slept = 0
    /\ last_send = NoSend
    /\ prev_iter = NoIter
    /\ older = NoIter

Init ==
    /\ PRACTICUM_TOKEN \in EnvValues
    /\ TELEGRAM_TOKEN \in EnvValues
    /\ TELEGRAM_CHAT_ID \in EnvValues
    /\ now \in 1..(MaxNow - 1)
    /\ Idle
    /\ call = NoCall

(***************************************************************************)
(* main.                                                                   *)
(***************************************************************************)
\* a cursor that never takes the response's current_date
next_load_clock(resp, t) == Get(resp, "from_date", PyInt(t))

\* a cursor that falls back to 0
next_load_zero(resp, t) == Get(resp, "current_date", PyInt(0))

\* response.get('current_date', int(time.time()))
next_load(resp, t) == Get(resp, "current_date", PyInt(t))

\* a try statement that sets the cursor to the clock when the fetch fails
try_body_resets(ld, t, h) ==
    LET answer == get_api_answer(ld, t, h) IN
    IF answer.exc # ""
    THEN [load |-> t, result |-> answer]
    ELSE LET date == next_load(answer.val, t) IN
         IF date.exc # ""
         THEN [load |-> ld, result |-> date]
         ELSE LET homeworks == check_response(answer.val) IN
              [load |-> date.val.val,
               result |->
                  IF homeworks.exc # "" THEN homeworks
                  ELSE IF Truthy(homeworks.val)
                  THEN parse_status(homeworks.val.val[1])
                  ELSE Return("No new status")]

\* a try statement that translates the last record of the list
try_body_last(ld, t, h) ==
    LET answer == get_api_answer(ld, t, h) IN
    IF answer.exc # ""
    THEN [load |-> ld, result |-> answer]
    ELSE LET date == next_load(answer.val, t) IN
         IF date.exc # ""
         THEN [load |-> ld, result |-> date]
         ELSE LET homeworks == check_response(answer.val) IN
              [load |-> date.val.val,
               result |->
                  IF homeworks.exc # "" THEN homeworks
                  ELSE IF Truthy(homeworks.val)
                  THEN parse_status(homeworks.val.val[Len(homeworks.val.val)])
                  ELSE Return("No new status")]

\* the body of the try statement up to the message: what it leaves in load,
\* and the message or the exception it ends with
try_body(ld, t, h) ==
    LET answer == get_api_answer(ld, t, h) IN
    IF answer.exc # ""
    THEN [load |-> ld, result |-> answer]
    ELSE LET date == next_load(answer.val, t) IN
         IF date.exc # ""
         THEN [load |-> ld, result |-> date]
         ELSE LET homeworks == check_response(answer.val) IN
              [load |-> date.val.val,
               result |->
                  IF homeworks.exc # "" THEN homeworks
                  ELSE IF Truthy(homeworks.val)
                  THEN parse_status(homeworks.val.val[1])
                  ELSE Return("No new status")]

\* a comparison that lets every message through
differs_always(msg, prev) == TRUE

\* message != prev_msg
differs(msg, prev) == msg # prev

\* if not check_tokens(): sys.exit(message)
MainExit ==
    /\ pc = "main"
    /\ ~check_tokens(PRACTICUM_TOKEN, TELEGRAM_TOKEN, TELEGRAM_CHAT_ID)
    /\ pc' = "exited"
    /\ exit_status' = <<sys_exit(PyStr("No token. Bot operation stopped!"))>>
    /\ UNCHANGED <<PRACTICUM_TOKEN, TELEGRAM_TOKEN, TELEGRAM_CHAT_ID, now, load,
                   prev_msg, message, error, http, params,
                   start_sends, fetches, sends, sleeps, slept, last_send,
                   prev_iter, older, call>>

\* a start of main that leaves the cursor at 0
MainStart_zero ==
    /\ pc = "main"
    /\ check_tokens(PRACTICUM_TOKEN, TELEGRAM_TOKEN, TELEGRAM_CHAT_ID)
    /\ load' = 0
    /\ start_sends' = start_sends + 1
    /\ \E delivery \in Deliveries :
          LET sent == send_message("Bot starts operation", delivery) IN
          IF sent.exc = ""
          THEN pc' = "try" /\ prev_msg' = "" /\ error' = error
          ELSE pc' = "crashed" /\ prev_msg' = prev_msg /\ error' = sent
    /\ UNCHANGED <<PRACTICUM_TOKEN, TELEGRAM_TOKEN, TELEGRAM_CHAT_ID,
                   exit_status, now, message, http, params, fetches,
                   sends, sleeps, slept, last_send, prev_iter, older, call>>

\* the start of main once the credentials are there
MainStart ==
    /\ pc = "main"
    /\ check_tokens(PRACTICUM_TOKEN, TELEGRAM_TOKEN, TELEGRAM_CHAT_ID)
    /\ load' = now
    /\ start_sends' = start_sends + 1
    /\ \E delivery \in Deliveries :
          LET sent == send_message("Bot starts operation", delivery) IN
          IF sent.exc = ""
          THEN pc' = "try" /\ prev_msg' = "" /\ error' = error
          ELSE pc' = "crashed" /\ prev_msg' = prev_msg /\ error' = sent
    /\ UNCHANGED <<PRACTICUM_TOKEN, TELEGRAM_TOKEN, TELEGRAM_CHAT_ID,
                   exit_status, now, message, http, params, fetches,
                   sends, sleeps, slept, last_send, prev_iter, older, call>>

\* one pass of the try statement up to the message
TryBodyOn(outcomes) ==
    /\ pc = "try"
    /\ \E h \in outcomes :
          LET body == try_body(load, now, h) IN
          /\ http' = h
          /\ params' = [from_date |-> timeline(load, now)]
          /\ load' = body.load
          /\ IF body.result.exc = ""
             THEN /\ message' = body.result.val
                  /\ error' = NoError
                  /\ pc' = "send"
             ELSE /\ message' = message
                  /\ error' = body.result
                  /\ pc' = IF body.result.exc \in ExceptionClasses
                           THEN "except" ELSE "unwind"
    /\ fetches' = 1
    /\ sends' = 0
    /\ sleeps' = 0
    /\ UNCHANGED <<PRACTICUM_TOKEN, TELEGRAM_TOKEN, TELEGRAM_CHAT_ID,
                   exit_status, now, prev_msg, start_sends, slept, last_send,
                   prev_iter, older, call>>

\* a pass on any exchange
TryBody == TryBodyOn(HttpOutcomes)

\* a try path that records the message only when it was delivered
TrySend_retries ==
    /\ pc = "send"
    /\ IF differs(message, prev_msg)
       THEN \E delivery \in Deliveries :
               /\ sends' = sends + 1
               /\ last_send' = [made |-> TRUE, text |-> message,
                                delivery |-> delivery]
               /\ prev_msg' = IF delivery = "ok" THEN message ELSE prev_msg
               /\ error' = error
               /\ pc' = "finally"
       ELSE UNCHANGED <<sends, last_send, prev_msg, error>> /\ pc' = "finally"
    /\ UNCHANGED <<PRACTICUM_TOKEN, TELEGRAM_TOKEN, TELEGRAM_CHAT_ID,
                   exit_status, now, load, message, http, params,
                   start_sends, fetches, sleeps, slept, prev_iter, older, call>>

\* a try path that sends and does not record what it sent
TrySend_forgets ==
    /\ pc = "send"
    /\ IF differs(message, prev_msg)
       THEN \E delivery \in Deliveries :
               /\ sends' = sends + 1
               /\ last_send' = [made |-> TRUE, text |-> message,
                                delivery |-> delivery]
               /\ UNCHANGED <<prev_msg, error>>
               /\ pc' = "finally"
       ELSE UNCHANGED <<sends, last_send, prev_msg, error>> /\ pc' = "finally"
    /\ UNCHANGED <<PRACTICUM_TOKEN, TELEGRAM_TOKEN, TELEGRAM_CHAT_ID,
                   exit_status, now, load, message, http, params,
                   start_sends, fetches, sleeps, slept, prev_iter, older, call>>

\* if message != prev_msg: send_message(bot, message); prev_msg = message
TrySend ==
    /\ pc = "send"
    /\ IF differs(message, prev_msg)
       THEN \E delivery \in Deliveries :
               LET sent == send_message(message, delivery) IN
               /\ sends' = sends + 1
               /\ last_send' = [made |-> TRUE, text |-> message,
                                delivery |-> delivery]
               /\ IF sent.exc = ""
                  THEN prev_msg' = message /\ error' = error
                       /\ pc' = "finally"
                  ELSE prev_msg' = prev_msg /\ error' = sent
                       /\ pc' = IF sent.exc \in ExceptionClasses
                                THEN "except" ELSE "unwind"
       ELSE UNCHANGED <<sends, last_send, prev_msg, error>> /\ pc' = "finally"
    /\ UNCHANGED <<PRACTICUM_TOKEN, TELEGRAM_TOKEN, TELEGRAM_CHAT_ID,
                   exit_status, now, load, message, http, params,
                   start_sends, fetches, sleeps, slept, prev_iter, older, call>>

\* an except clause that sends the diagnostic and does not record it
ExceptSend_forgets ==
    /\ pc = "except"
    /\ LET diagnostic == "Sboi v rabote programmy: " \o error.val IN
       /\ message' = diagnostic
       /\ IF differs(diagnostic, prev_msg)
          THEN \E delivery \in Deliveries :
                  /\ sends' = sends + 1
                  /\ last_send' = [made |-> TRUE, text |-> diagnostic,
                                   delivery |-> delivery]
                  /\ UNCHANGED <<prev_msg, error>>
                  /\ pc' = "finally"
          ELSE UNCHANGED <<sends, last_send, prev_msg, error>>
               /\ pc' = "finally"
    /\ UNCHANGED <<PRACTICUM_TOKEN, TELEGRAM_TOKEN, TELEGRAM_CHAT_ID,
                   exit_status, now, load, http, params,
                   start_sends, fetches, sleeps, slept, prev_iter, older, call>>

\* except Exception as error: the diagnostic message, sent when it changed
ExceptSend ==
    /\ pc = "except"
    /\ LET diagnostic == "Sboi v rabote programmy: " \o error.val IN
       /\ message' = diagnostic
       /\ IF differs(diagnostic, prev_msg)
          THEN \E delivery \in Deliveries :
                  LET sent == send_message(diagnostic, delivery) IN
                  /\ sends' = sends + 1
                  /\ last_send' = [made |-> TRUE, text |-> diagnostic,
                                   delivery |-> delivery]
                  /\ IF sent.exc = ""
                     THEN prev_msg' = diagnostic /\ error' = error
                          /\ pc' = "finally"
                     ELSE prev_msg' = prev_msg /\ error' = sent
                          /\ pc' = "unwind"
          ELSE UNCHANGED <<sends, last_send, prev_msg, error>>
               /\ pc' = "finally"
    /\ UNCHANGED <<PRACTICUM_TOKEN, TELEGRAM_TOKEN, TELEGRAM_CHAT_ID,
                   exit_status, now, load, http, params,
                   start_sends, fetches, sleeps, slept, prev_iter, older, call>>

\* a loop that sleeps at the end of the try path only
Finally_skips ==
    /\ pc \in {"finally", "unwind"}
    /\ sleeps' = IF error.exc = "" THEN sleeps + 1 ELSE sleeps
    /\ slept' = IF error.exc = "" THEN RETRY_PERIOD ELSE slept
    /\ \E t \in now..MaxNow : (t > now \/ now = MaxNow) /\ now' = t
    /\ prev_iter' = [done |-> TRUE, message |-> message, sends |-> sends]
    /\ older' = older
    /\ call' = call
    /\ pc' = IF pc = "finally" THEN "try" ELSE "crashed"
    /\ UNCHANGED <<PRACTICUM_TOKEN, TELEGRAM_TOKEN, TELEGRAM_CHAT_ID,
                   exit_status, load, prev_msg, message, error, http,
                   params, start_sends, fetches, sends, last_send>>

\* finally: time.sleep(RETRY_PERIOD), and the next pass of the loop unless an
\* exception is leaving the try statement.  The clock reads later when the
\* sleep ends.
FinallyKeeping(history) ==
    /\ pc \in {"finally", "unwind"}
    /\ sleeps' = sleeps + 1
    /\ slept' = RETRY_PERIOD
    /\ \E t \in now..MaxNow : (t > now \/ now = MaxNow) /\ now' = t
    /\ prev_iter' = [done |-> TRUE, message |-> message, sends |-> sends]
    /\ older' = history
    /\ call' = call
    /\ pc' = IF pc = "finally" THEN "try" ELSE "crashed"
    /\ UNCHANGED <<PRACTICUM_TOKEN, TELEGRAM_TOKEN, TELEGRAM_CHAT_ID,
                   exit_status, load, prev_msg, message, error, http,
                   params, start_sends, fetches, sends, last_send>>

\* the loop as it runs: no history beyond the iteration before is kept
Finally == FinallyKeeping(older)

Next == MainExit \/ MainStart \/ TryBody \/ TrySend \/ ExceptSend \/ Finally

Spec == Init /\ [][Next]_vars

\* the loop runs on once main has started: every step that is enabled is
\* taken in the end (the calls return, the sleep ends)
FairSpec == Spec /\ WF_vars(Next)

(***************************************************************************)
(* check_response on its own, on every decoded body.                       *)
(***************************************************************************)
InitCheckResponse ==
    /\ PRACTICUM_TOKEN = None
    /\ TELEGRAM_TOKEN = None
    /\ TELEGRAM_CHAT_ID = None
    /\ now = 1
    /\ Idle
    /\ \E r \in Bodies :
          call = [fn |-> "check_response", arg |-> r, done |-> FALSE,
                  result |-> Return(None)]

CallCheckResponse ==
    /\ call.fn = "check_response"
    /\ ~call.done
    /\ call' = [call EXCEPT !.done = TRUE, !.result = check_response(call.arg)]
    /\ UNCHANGED <<PRACTICUM_TOKEN, TELEGRAM_TOKEN, TELEGRAM_CHAT_ID, pc,
                   exit_status, now, load, prev_msg, message, error, http,
                   params, start_sends, fetches, sends, sleeps, slept,
                   last_send, prev_iter, older>>

NextCheckResponse == CallCheckResponse

SpecCheckResponse == InitCheckResponse /\ [][NextCheckResponse]_vars

(***************************************************************************)
(* What the properties speak of.                                           *)
(***************************************************************************)
\* the fetch of exchange h returned a decoded body
FetchReturns(h) == get_api_answer(0, 1, h).exc = ""

\* the fetch of exchange h raised
FetchFails(h) == h.error # "none" /\ get_api_answer(0, 1, h).exc # ""

\* the fetch of exchange h returned a mapping
ReturnsMapping(h) == FetchReturns(h) /\ h.body.type = "dict"

\* the fetch of exchange h returned a mapping that holds current_date
ReturnsDate(h) == ReturnsMapping(h) /\ "current_date" \in DOMAIN h.body.val

DateOf(h) == h.body.val["current_date"].val

\* the diagnostic message of an exception
Diagnostic(e) == "Sboi v rabote programmy: " \o e.val

\* the step of the loop that fetches
FetchStep == pc = "try" /\ pc' # "try"

\* the steps of the loop that compare the message with prev_msg
SendStep == pc \in {"send", "except"} /\ pc' # pc

(***************************************************************************)
(* Properties.                                                             *)
(***************************************************************************)
\* C1: once the loop has made a send attempt, prev_msg is the text of its
\* most recent send attempt, delivered or not; and a send attempt of the loop
\* never carries the text of the send attempt before it.
C1_PrevMsgIsLastAttempt ==
    /\ [](last_send.made => prev_msg = last_send.text)
    /\ [][(sends' > sends /\ last_send.made)
            => last_send'.text # last_send.text]_vars

\* C1: the loop is past a second send attempt, the last one failed, and
\* prev_msg holds its text
C1_Witness ==
    /\ prev_iter.done /\ prev_iter.sends = 1
    /\ sends = 1
    /\ last_send.delivery = "TelegramError"
    /\ prev_msg = last_send.text

\* C2 as stated: two consecutive iterations with the same message make
\* exactly one send attempt between them.
C2_ExactlyOneSend ==
    (pc = "finally" /\ prev_iter.done /\ prev_iter.message = message)
        => prev_iter.sends + sends = 1

\* C2 as amended: two consecutive iterations with the same message make at
\* most one send attempt between them, and the second of them makes none.
C2_AtMostOneSend ==
    (pc = "finally" /\ prev_iter.done /\ prev_iter.message = message)
        => (sends = 0 /\ prev_iter.sends + sends <= 1)

\* C2: the second of two iterations with the same message is over, and the
\* first of them sent it
C2_Witness ==
    /\ pc = "finally" /\ prev_iter.done /\ prev_iter.message = message
    /\ prev_iter.sends = 1 /\ sends = 0

\* C3: with a credential missing the process never leaves the start of main
\* but to exit, with a status that is not 0, and it issues no request and
\* makes no send attempt.
C3_MissingCredentialExits ==
    (\E c \in {PRACTICUM_TOKEN, TELEGRAM_TOKEN, TELEGRAM_CHAT_ID} : c = None)
        => /\ pc \in {"main", "exited"}
           /\ pc = "exited" => (Len(exit_status) = 1 /\ exit_status[1] # 0)
           /\ params = <<>> /\ fetches = 0
           /\ start_sends = 0 /\ ~last_send.made /\ sends = 0

\* C3: the process exited for the bot token alone missing
C3_Witness ==
    /\ pc = "exited"
    /\ TELEGRAM_TOKEN = None
    /\ Truthy(PRACTICUM_TOKEN) /\ Truthy(TELEGRAM_CHAT_ID)

\* C4: once main has started, no exception of an iteration leaves the loop:
\* the exception is caught, its diagnostic message is the iteration's message
\* and is what prev_msg holds after the comparison, and the loop sleeps and
\* then fetches again.
C4_LoopSurvivesErrors ==
    /\ [](pc \notin {"crashed", "unwind"})
    /\ []((pc = "finally" /\ error.exc # "")
            => (message = Diagnostic(error) /\ prev_msg = message))
    /\ [](pc = "except"
            => <>(pc = "try" /\ sleeps = 1 /\ <>(fetches = 1 /\ sleeps = 0)))

\* C4: an iteration that failed in parse_status is over and the loop is
\* about to fetch again
C4_Witness ==
    /\ pc = "try" /\ sleeps = 1
    /\ error.exc = "KeyError"
    /\ message = Diagnostic(error)

\* C5: send_message returns normally whatever the delivery does; an iteration
\* makes at most one send attempt, and after a send attempt whose delivery
\* failed the loop goes on to its sleep with prev_msg set to the text.
C5_NotifyNeverRaises ==
    /\ \A d \in Deliveries : send_message(message, d).exc = ""
    /\ sends <= 1
    /\ (sends = 1 /\ last_send.delivery = "TelegramError")
          => (pc \in {"finally", "try"} /\ prev_msg = last_send.text)

\* C5: the delivery of a diagnostic message failed and the iteration is
\* before its sleep
C5_Witness ==
    /\ pc = "finally" /\ sends = 1
    /\ last_send.delivery = "TelegramError"
    /\ error.exc # "" /\ last_send.text = Diagnostic(error)

\* C6: when the last fetch that returned gave a mapping with current_date = T,
\* the request of the next fetch carries from_date >= T.
C6_NextFetchFromCurrentDate ==
    [][(FetchStep /\ ReturnsDate(http))
         => params'.from_date >= DateOf(http)]_vars

\* C6: the fetch after a response with current_date = 0 has been made, with
\* from_date read from time_ns()
C6_Witness ==
    /\ pc \in {"send", "except"} /\ prev_iter.done
    /\ params.from_date = time_ns(now)

\* C7 as stated: the cursor gets smaller in an iteration only when the
\* response of that iteration holds a current_date smaller than the cursor.
C7_NeverDecreases ==
    [][load' < load => (ReturnsDate(http') /\ DateOf(http') < load)]_vars

\* C7 as amended: the cursor gets smaller in an iteration only when the
\* response holds a current_date smaller than the cursor, which it then takes,
\* or when the response is a mapping without current_date and the cursor is
\* ahead of the clock, which it then takes.
C7_DecreasesOnlyByResponse ==
    [][load' < load
         => \/ ReturnsDate(http') /\ DateOf(http') < load
               /\ load' = DateOf(http')
            \/ ReturnsMapping(http') /\ ~ReturnsDate(http')
               /\ now < load /\ load' = now]_vars

\* C7: a response without current_date has taken the cursor back from a
\* current_date ahead of the clock to the clock
C7_Witness ==
    /\ pc \in {"send", "except"}
    /\ ReturnsMapping(http) /\ ~ReturnsDate(http)
    /\ load = now
    /\ params.from_date > load /\ params.from_date <= MaxDate

\* C8: an iteration whose fetch raises leaves the cursor as it was, produces
\* no status message, and makes one send attempt, for the diagnostic message,
\* when that differs from prev_msg, and none when it does not.
C8_FailedFetch ==
    /\ [][(FetchStep /\ FetchFails(http'))
            => /\ load' = load /\ message' = message /\ prev_msg' = prev_msg
               /\ sends' = 0 /\ last_send' = last_send
               /\ pc' = "except" /\ error'.exc = "IncorrectAPIResponse"]_vars
    /\ [][(pc = "except" /\ FetchFails(http))
            => /\ load' = load /\ pc' = "finally"
               /\ message' = Diagnostic(error)
               /\ IF Diagnostic(error) # prev_msg
                  THEN /\ sends' = 1 /\ prev_msg' = Diagnostic(error)
                       /\ last_send'.text = Diagnostic(error)
                  ELSE /\ sends' = 0 /\ prev_msg' = prev_msg
                       /\ last_send' = last_send]_vars
    /\ [][(pc = "finally" /\ FetchFails(http))
            => (load' = load /\ sends' = sends /\ prev_msg' = prev_msg)]_vars

\* C8: the diagnostic message of a 503 has been sent and the iteration is
\* before its sleep
C8_Witness ==
    /\ pc = "finally" /\ FetchFails(http) /\ http.status_code = 503
    /\ sends = 1 /\ last_send.text = message

\* the fetch of exchange h returned a mapping without homeworks, or without
\* current_date, or whose homeworks is no list
SchemaInvalid(h) ==
    /\ ReturnsMapping(h)
    /\ \/ "homeworks" \notin DOMAIN h.body.val
       \/ "current_date" \notin DOMAIN h.body.val
       \/ h.body.val["homeworks"].type # "list"

\* str() of the errors check_response raises for such a mapping
SchemaErrors ==
    {"Response does not contain \"homeworks\" key",
     "\"homeworks\" value is not a list",
     "Response does not contain \"current_date\" key"}

\* the send attempts of an iteration that failed on such a mapping: at most
\* one, for the diagnostic message, recorded in prev_msg
SchemaDiagnosticPath ==
    /\ [][(pc = "except" /\ SchemaInvalid(http))
            => /\ load' = load /\ pc' = "finally"
               /\ message' = Diagnostic(error)
               /\ IF Diagnostic(error) # prev_msg
                  THEN /\ sends' = 1 /\ prev_msg' = Diagnostic(error)
                       /\ last_send'.text = Diagnostic(error)
                  ELSE /\ sends' = 0 /\ prev_msg' = prev_msg
                       /\ last_send' = last_send]_vars
    /\ [][(pc = "finally" /\ SchemaInvalid(http))
            => (load' = load /\ sends' = sends /\ prev_msg' = prev_msg)]_vars

\* C9 as stated: an iteration whose response is a mapping of invalid shape
\* fails with an error of check_response, produces no status message, and
\* changes nothing but what the diagnostic path changes: the cursor stays.
C9_SchemaErrorChangesNothing ==
    /\ [][(FetchStep /\ SchemaInvalid(http'))
            => /\ pc' = "except"
               /\ error'.exc = "TypeError" /\ error'.val \in SchemaErrors
               /\ message' = message /\ prev_msg' = prev_msg
               /\ sends' = 0 /\ last_send' = last_send
               /\ load' = load]_vars
    /\ SchemaDiagnosticPath

\* C9 as amended: such an iteration fails with an error of check_response,
\* produces no status message, and changes the cursor, to the response's
\* current_date or, without one, to the clock, and beyond that only what the
\* diagnostic path changes; the diagnostic message is sent once when it
\* differs from prev_msg and not at all when it does not.
C9_SchemaErrorChangesCursorOnly ==
    /\ [][(FetchStep /\ SchemaInvalid(http'))
            => /\ pc' = "except"
               /\ error'.exc = "TypeError" /\ error'.val \in SchemaErrors
               /\ message' = message /\ prev_msg' = prev_msg
               /\ sends' = 0 /\ last_send' = last_send
               /\ load' = IF ReturnsDate(http') THEN DateOf(http')
                          ELSE now]_vars
    /\ SchemaDiagnosticPath

\* C9: the diagnostic message for a mapping without homeworks has been sent,
\* and the cursor is the response's current_date, not what the fetch sent
C9_Witness ==
    /\ pc = "finally" /\ SchemaInvalid(http)
    /\ "homeworks" \notin DOMAIN http.body.val
    /\ ReturnsDate(http) /\ load = DateOf(http)
    /\ params.from_date # load
    /\ sends = 1 /\ last_send.text = message

\* validate as the specification orders its checks: no mapping, homeworks
\* absent, homeworks no sequence, current_date absent
validate(response) ==
    IF response.type # "dict"
    THEN Raise("TypeError", "Response is not a dictionary")
    ELSE IF "homeworks" \notin DOMAIN response.val
    THEN Raise("TypeError", "Response does not contain \"homeworks\" key")
    ELSE IF response.val["homeworks"].type # "list"
    THEN Raise("TypeError", "\"homeworks\" value is not a list")
    ELSE IF "current_date" \notin DOMAIN response.val
    THEN Raise("TypeError", "Response does not contain \"current_date\" key")
    ELSE Return(response.val["homeworks"])

\* C10: check_response reports the error of the first condition violated in
\* the order no mapping, homeworks absent, homeworks no sequence,
\* current_date absent, and returns the homeworks list when none is.
C10_FirstViolatedCondition ==
    call.done
        => /\ call.result.exc = validate(call.arg).exc
           /\ call.result.val = validate(call.arg).val

(***************************************************************************)
(* parse_status on its own, on every homework record.                      *)
(***************************************************************************)
\* the names a record carries under homework_name
RecordNames == {PyStr("hw1"), PyStr("hw2"), PyStr("")}

\* the values a record carries under status: the three keys of the table,
\* strings that are no key of it, and values that are no string
RecordStatuses ==
    {PyStr("approved"), PyStr("reviewing"), PyStr("rejected"),
     PyStr("unknown"), PyStr("Approved"), PyStr(""), PyInt(1), None}

\* dict records with and without homework_name, with and without status,
\* with and without a field that parse_status does not read
ParseStatusRecords ==
    {PyDict([homework_name |-> n, status |-> s]) :
        n \in RecordNames, s \in RecordStatuses}
    \cup {PyDict([homework_name |-> n]) : n \in RecordNames}
    \cup {PyDict([status |-> s]) : s \in RecordStatuses}
    \cup {EmptyDict}
    \cup {PyDict([homework_name |-> n, status |-> s, id |-> PyInt(7)]) :
            n \in RecordNames, s \in RecordStatuses}
    \cup {PyDict([homework_name |-> n, id |-> PyInt(7)]) : n \in RecordNames}
    \cup {PyDict([status |-> s, id |-> PyInt(7)]) : s \in RecordStatuses}
    \cup {PyDict([id |-> PyInt(7)])}

InitParseStatus ==
    /\ PRACTICUM_TOKEN = None
    /\ TELEGRAM_TOKEN = None
    /\ TELEGRAM_CHAT_ID = None
    /\ now = 1
    /\ Idle
    /\ \E r \in ParseStatusRecords :
          call = [fn |-> "parse_status", arg |-> r, done |-> FALSE,
                  result |-> Return(None)]

CallParseStatus ==
    /\ call.fn = "parse_status"
    /\ ~call.done
    /\ call' = [call EXCEPT !.done = TRUE, !.result = parse_status(call.arg)]
    /\ UNCHANGED <<PRACTICUM_TOKEN, TELEGRAM_TOKEN, TELEGRAM_CHAT_ID, pc,
                   exit_status, now, load, prev_msg, message, error, http,
                   params, start_sends, fetches, sends, sleeps, slept,
                   last_send, prev_iter, older>>

NextParseStatus == CallParseStatus

SpecParseStatus == InitParseStatus /\ [][NextParseStatus]_vars

\* the record has the field
HasField(record, field) == field \in DOMAIN record.val

\* the record's status is one of approved, reviewing, rejected
StatusInTable(record) ==
    /\ HasField(record, "status")
    /\ record.val["status"] \in
          {PyStr("approved"), PyStr("reviewing"), PyStr("rejected")}

TranslateFails(h) ==
    /\ ReturnsMapping(h)
    /\ check_response(h.body).exc = ""
    /\ h.body.val["homeworks"].val # <<>>
    /\ LET record == h.body.val["homeworks"].val[1] IN
       /\ record.type = "dict"
       /\ ~HasField(record, "homework_name") \/ ~StatusInTable(record)

\* C12 as stated: the iteration in which parse_status raises has made
\* exactly one send attempt, of the diagnostic, when it reaches its sleep.
C12_ExactlyOneDiagnostic ==
    (pc = "finally" /\ TranslateFails(http)) =>
        /\ sends = 1
        /\ last_send.text = Diagnostic(error)

\* C12: in the iteration in which parse_status raises for a record without
\* homework_name or without a status of the table, the try path sends
\* nothing (no status notification), the error is the KeyError or the
\* ValueError, and the except path makes one send attempt, of the
\* diagnostic, when the diagnostic differs from prev_msg and none when it
\* equals prev_msg; so the iteration makes at most one send attempt however
\* many fields are missing or invalid.
C12_AtMostOneDiagnostic ==
    [][/\ (FetchStep /\ TranslateFails(http')) =>
             /\ pc' = "except"
             /\ error'.exc \in {"KeyError", "ValueError"}
             /\ sends' = 0
       /\ (pc = "except" /\ TranslateFails(http) /\ pc' # pc) =>
             IF Diagnostic(error) # prev_msg
             THEN /\ sends' = 1
                  /\ last_send'.text = Diagnostic(error)
             ELSE /\ sends' = 0
                  /\ last_send' = last_send
       /\ (pc = "finally" /\ TranslateFails(http)) =>
             /\ sends <= 1
             /\ sends = 1 => last_send.text = Diagnostic(error)]_vars

\* the first record has neither a name nor a status, and the iteration has
\* sent the one diagnostic of the missing name
C12_Witness ==
    /\ pc = "finally"
    /\ TranslateFails(http)
    /\ http.body.val["homeworks"].val[1] = EmptyDict
    /\ error.exc = "KeyError"
    /\ sends = 1
    /\ last_send.text = Diagnostic(error)

(***************************************************************************)
(* The comparison with prev_msg, on both paths.                            *)
(***************************************************************************)
\* the message of the iteration at its comparison with prev_msg: the try
\* path's message, or the diagnostic of the error the except clause caught
IterationMessage == IF pc = "send" THEN message ELSE Diagnostic(error)

\* C13: in every iteration, on the try path and on the except path, a send
\* attempt is made exactly when the iteration's message differs from
\* prev_msg at that point; when it is made, its text is the message and
\* prev_msg becomes the message, and when it is not made prev_msg and the
\* record of the last send stay as they were.  No other step of the loop
\* makes a send attempt or changes prev_msg.
C13_SendIffDiffers ==
    [][/\ SendStep =>
             /\ (sends' = sends + 1) <=> (IterationMessage # prev_msg)
             /\ (sends' = sends) <=> (IterationMessage = prev_msg)
             /\ (IterationMessage # prev_msg) =>
                   /\ last_send'.made
                   /\ last_send'.text = IterationMessage
                   /\ prev_msg' = IterationMessage
             /\ (IterationMessage = prev_msg) =>
                   /\ prev_msg' = prev_msg
                   /\ last_send' = last_send
       /\ (pc \in {"try", "finally", "unwind"}) =>
             /\ prev_msg' = prev_msg
             /\ last_send' = last_send
             /\ sends' <= sends]_vars

\* an iteration of the try path whose message equals prev_msg has reached
\* its sleep without a send attempt, after an iteration that sent it
C13_Witness ==
    /\ pc = "finally"
    /\ error.exc = ""
    /\ sends = 0
    /\ prev_msg = message
    /\ last_send.made
    /\ last_send.text = message
    /\ prev_iter.done
    /\ prev_iter.sends = 1

(***************************************************************************)
(* The order of fetch, send and sleep in an iteration.                     *)
(***************************************************************************)
\* the sleep of the finally clause ends
SleepStep == pc \in {"finally", "unwind"} /\ pc' # pc

\* C14: every iteration makes exactly one fetch, then at most one send
\* attempt, then exactly one sleep of RETRY_PERIOD seconds, on the try path
\* and on the except path alike: a fetch starts an iteration with no send
\* and no sleep yet, a send comes after the one fetch and before the sleep,
\* the sleep comes after the one fetch and at most one send, and when the
\* next fetch starts the iteration before it has made one fetch, at most one
\* send attempt and one sleep of RETRY_PERIOD.
C14_FetchSendSleep ==
    [][/\ FetchStep =>
             /\ fetches' = 1 /\ sends' = 0 /\ sleeps' = 0
             /\ prev_iter.done =>
                   /\ fetches = 1
                   /\ sends <= 1
                   /\ sleeps = 1
                   /\ slept = RETRY_PERIOD
       /\ SendStep =>
             /\ fetches = 1 /\ sends = 0 /\ sleeps = 0
             /\ fetches' = 1 /\ sends' <= 1 /\ sleeps' = 0
       /\ SleepStep =>
             /\ fetches = 1 /\ sends <= 1 /\ sleeps = 0
             /\ fetches' = 1 /\ sends' = sends /\ sleeps' = 1
             /\ slept' = RETRY_PERIOD]_vars

\* an iteration that failed has sent its diagnostic and slept, and the loop
\* is at its next fetch
C14_Witness ==
    /\ pc = "try"
    /\ prev_iter.done
    /\ error.exc # ""
    /\ fetches = 1
    /\ sends = 1
    /\ sleeps = 1
    /\ slept = RETRY_PERIOD

(***************************************************************************)
(* The from_date of a request.                                             *)
(***************************************************************************)
\* C15: every fetch sends from_date equal to the value load holds when the
\* fetch is made, for every value of load, 0 included.
C15_FromDateIsCursor ==
    [][FetchStep => params'.from_date = load]_vars

(***************************************************************************)
(* The start of main.                                                      *)
(***************************************************************************)
\* the three credentials are there
CredentialsPresent ==
    check_tokens(PRACTICUM_TOKEN, TELEGRAM_TOKEN, TELEGRAM_CHAT_ID)

\* the loop is in its first iteration and has made its fetch
FirstFetchMade == ~prev_iter.done /\ pc \in {"send", "except", "finally", "unwind"}

\* C16: with the three credentials present, the start message
\* 'Bot starts operation' is attempted exactly once, before the first fetch
\* (no request has been made while main has not started, and the attempt has
\* been made whenever the loop runs), and never again (the count stays 1 and
\* no send attempt of the loop carries that text); and the first fetch sends
\* from_date equal to the time read at startup.
C16_StartOnceBeforeFirstFetch ==
    [][/\ CredentialsPresent =>
             /\ (pc = "main") => (start_sends = 0 /\ fetches = 0 /\ params = <<>>)
             /\ (pc # "main") => start_sends = 1
             /\ (pc' # "main") => start_sends' = 1
             /\ (pc = "main" /\ pc' = "try") =>
                   (load' = now /\ fetches' = 0 /\ prev_msg' = "")
       /\ (FetchStep /\ ~prev_iter.done) =>
             /\ start_sends = 1
             /\ params'.from_date = now
             /\ now' = now
       /\ last_send'.text # "Bot starts operation"]_vars

\* the first fetch has been made, after the one start message, with the
\* startup time as from_date
C16_Witness ==
    /\ CredentialsPresent
    /\ FirstFetchMade
    /\ start_sends = 1
    /\ fetches = 1
    /\ params.from_date = now

(***************************************************************************)
(* The message of an iteration whose response passes check_response.       *)
(***************************************************************************)
\* the exchange returns a dict that passes check_response
PassesValidation(h) == ReturnsMapping(h) /\ check_response(h.body).exc = ""

\* the exchange with its homeworks list replaced
WithHomeworks(h, list) == [h EXCEPT !.body.val.homeworks = PyList(list)]

\* C17: in an iteration whose response passes check_response, the message
\* is 'No new status' exactly when the homeworks list is empty; otherwise
\* the iteration's message is the translation of the first record, or the
\* iteration fails with the error parse_status raises for the first record;
\* and the outcome is the one the same response would have with the first
\* record alone in the list, so no later record influences the message, the
\* notification or whether the iteration fails.
C17_FirstRecordOnly ==
    [][(FetchStep /\ PassesValidation(http')) =>
          LET homeworks == http'.body.val["homeworks"].val
              outcome == IF pc' = "send" THEN Return(message') ELSE error'
          IN  /\ pc' \in {"send", "except"}
              /\ (pc' = "send" /\ message' = "No new status")
                    <=> (homeworks = <<>>)
              /\ (homeworks # <<>>) =>
                    /\ outcome = parse_status(homeworks[1])
                    /\ outcome =
                          try_body(load, now,
                                   WithHomeworks(http', <<homeworks[1]>>)).result
       ]_vars

\* the list held two records, the second one without name and status, and
\* the message is the translation of the first
C17_Witness ==
    /\ pc = "send"
    /\ PassesValidation(http)
    /\ Len(http.body.val["homeworks"].val) = 2
    /\ http.body.val["homeworks"].val[2] = EmptyDict
    /\ message = parse_status(http.body.val["homeworks"].val[1]).val
    /\ message # "No new status"

(***************************************************************************)
(* get_api_answer on its own, on two exchanges at a time.                  *)
(***************************************************************************)
\* what requests.get and response.json() can do: the exchanges of the loop,
\* a timeout, and answers with another status than 200 whose body is JSON
FetchExchanges ==
    HttpOutcomes
    \cup {[error |-> "Timeout", status_code |-> 0, reason |-> "",
           text |-> "", body |-> NotJson]}
    \cup {HttpResponse(404, "Not Found", "json", b) :
            b \in {EmptyDict, PyDict([homeworks |-> PyList(<<>>),
                                      current_date |-> PyInt(1)])}}

\* the exchanges the second call is made on: a request that does not
\* complete, a status other than 200, a body that is no JSON, a good answer
SecondExchanges ==
    {h \in FetchExchanges :
        \/ h.error = "ConnectionError"
        \/ h.status_code = 503
        \/ h.status_code = HTTPStatus_OK /\ h.body \in {NotJson, EmptyDict}}

InitGetApiAnswer ==
    /\ PRACTICUM_TOKEN = None
    /\ TELEGRAM_TOKEN = None
    /\ TELEGRAM_CHAT_ID = None
    /\ now = 1
    /\ Idle
    /\ \E l \in 0..1, h1 \in FetchExchanges, h2 \in SecondExchanges :
          call = [fn |-> "get_api_answer",
                  arg |-> [load |-> l, first |-> h1, second |-> h2],
                  done |-> FALSE,
                  result |-> [first |-> Return(None), second |-> Return(None)]]

CallGetApiAnswer ==
    /\ call.fn = "get_api_answer"
    /\ ~call.done
    /\ call' = [call EXCEPT
                  !.done = TRUE,
                  !.result =
                     [first |-> get_api_answer(call.arg.load, now,
                                               call.arg.first),
                      second |-> get_api_answer(call.arg.load, now,
                                                call.arg.second)]]
    /\ UNCHANGED <<PRACTICUM_TOKEN, TELEGRAM_TOKEN, TELEGRAM_CHAT_ID, pc,
                   exit_status, now, load, prev_msg, message, error, http,
                   params, start_sends, fetches, sends, sleeps, slept,
                   last_send, prev_iter, older>>

NextGetApiAnswer == CallGetApiAnswer

SpecGetApiAnswer == InitGetApiAnswer /\ [][NextGetApiAnswer]_vars

\* the request did not complete
TransportFailure(h) == h.error # ""

\* the request completed with a status other than 200 or with a body that
\* is no JSON
UpstreamFailure(h) ==
    h.error = "" /\ (h.status_code # 200 \/ h.body = NotJson)

\* the call returned the decoded body exactly when the request completed
\* with status 200 and a body that is JSON
ReturnsBodyIffOk(h, result) ==
    /\ (result.exc = "") <=> (~TransportFailure(h) /\ ~UpstreamFailure(h))
    /\ (result.exc = "") => result.val = h.body

FailedDelivery(m) ==
    /\ last_send.made
    /\ last_send.delivery = "TelegramError"
    /\ last_send.text = m

\* C19: when the send attempt of a message failed at delivery, every
\* following iteration that again produces that message, with no other
\* message sent in between, makes no send attempt: the failed attempt stays
\* the loop's last attempt, prev_msg stays the message, and the message is
\* not retried as long as the loop keeps producing it.
C19_FailedSendNotRetried ==
    [][/\ (SendStep /\ FailedDelivery(IterationMessage)) =>
             /\ prev_msg = IterationMessage
             /\ sends' = sends
             /\ last_send' = last_send
             /\ prev_msg' = prev_msg
       /\ (FailedDelivery(prev_msg) /\ ~SendStep) =>
             (last_send' = last_send /\ prev_msg' = prev_msg)]_vars

\* the delivery of a status message failed in the iteration before, this
\* iteration produced the same message and goes to its sleep without a send
C19_Witness ==
    /\ pc = "finally"
    /\ error.exc = ""
    /\ FailedDelivery(message)
    /\ prev_iter.done
    /\ prev_iter.message = message
    /\ prev_iter.sends = 1
    /\ sends = 0

(***************************************************************************)
(* The loop with the history of two iterations, on a few exchanges.        *)
(***************************************************************************)
\* exchanges that give five messages: two diagnostics, 'No new status' and
\* two status messages
FewOutcomes ==
    {h \in HttpOutcomes :
        \/ h.error = "ConnectionError"
        \/ /\ h.error = ""
           /\ h.status_code = HTTPStatus_OK
           /\ h.body \in
                 {EmptyDict}
                 \cup {PyDict([homeworks |-> PyList(l),
                               current_date |-> PyInt(1)]) :
                         l \in {<<>>,
                                <<PyDict([homework_name |-> PyStr("hw1"),
                                          status |-> PyStr("approved")])>>,
                                <<PyDict([homework_name |-> PyStr("hw1"),
                                          status |-> PyStr("rejected")])>>}}}

\* main with its three credentials
InitDedup ==
    /\ PRACTICUM_TOKEN = PyStr("secret")
    /\ TELEGRAM_TOKEN = PyStr("secret")
    /\ TELEGRAM_CHAT_ID = PyStr("secret")
    /\ now \in 1..(MaxNow - 1)
    /\ Idle
    /\ call = NoCall

\* a pass on one of the few exchanges
TryBodyFew == TryBodyOn(FewOutcomes)

\* the sleep, with the iteration before moved to the history
FinallyTracked == FinallyKeeping(prev_iter)

NextDedup ==
    MainStart \/ TryBodyFew \/ TrySend \/ ExceptSend \/ FinallyTracked

SpecDedup == InitDedup /\ [][NextDedup]_vars

\* the iteration at its sleep is the third of three that produced a message,
\* then another message, then the first message again
ThirdOfMDM ==
    /\ pc = "finally"
    /\ older.done
    /\ prev_iter.done
    /\ prev_iter.message # older.message
    /\ message = older.message

\* C20 as stated: when three iterations in a row produce M, then another
\* message D, then M again, each of the three made a send attempt; and the
\* first iteration after the start makes a send attempt.
C20_AllThreeSend ==
    /\ ThirdOfMDM => (older.sends = 1 /\ prev_iter.sends = 1 /\ sends = 1)
    /\ (pc = "finally" /\ ~prev_iter.done) => sends = 1

\* C20: an iteration makes a send attempt exactly when it is the first
\* iteration after the start or its message differs from the message of the
\* iteration right before it, whatever was sent earlier; so when three
\* iterations in a row produce M, then another message D, then M again, the
\* second and the third make a send attempt (M is sent again although it was
\* produced two iterations before), and the first does unless the iteration
\* before it produced M too; the start message does not count: the first
\* iteration after the start always makes a send attempt.
C20_DedupAgainstPreviousOnly ==
    /\ (pc = "finally") =>
          /\ (sends = 1) <=> (~prev_iter.done \/ prev_iter.message # message)
          /\ (sends = 0) <=> (prev_iter.done /\ prev_iter.message = message)
    /\ ThirdOfMDM => (prev_iter.sends = 1 /\ sends = 1)
    /\ (pc = "try" /\ prev_iter.done) => prev_msg = prev_iter.message
    /\ (pc = "try" /\ ~prev_iter.done) => prev_msg = ""

\* a status message, then a diagnostic, then the same status message again:
\* all three iterations made a send attempt
C20_Witness ==
    /\ ThirdOfMDM
    /\ error.exc = ""
    /\ message # "No new status"
    /\ older.sends = 1
    /\ prev_iter.sends = 1
    /\ sends = 1
    /\ last_send.text = message

=============================================================================
